---- MODULE Spec2Model ----
(***************************************************************************)
(* A model of src/parser.rs: the nom parser of POSIX/ustar tar archives.   *)
(*                                                                         *)
(* A buffer is a sequence of bytes (0..255).  A parser applied to the      *)
(* slice i[p..] is an operator of the whole buffer i and the offset p      *)
(* (0-based); its result is a record whose kind is one of                  *)
(*   "Done"        IResult::Done(rest, out), rest given as an offset,      *)
(*   "Error"       IResult::Error,                                         *)
(*   "Incomplete"  IResult::Incomplete,                                    *)
(*   "Panic"       the thread panicked (arithmetic overflow in a build     *)
(*                 with overflow checks).                                  *)
(* A u64 is four 16-bit limbs, least significant first, so that the        *)
(* arithmetic keeps its 64-bit width.  usize is taken to be 64 bits wide.  *)
(***************************************************************************)
EXTENDS Integers, Sequences, FiniteSets, TLC

VARIABLES
    input,            \* the byte buffer handed to the function under study
    overflow_checks,  \* the build: TRUE panics on overflow, FALSE wraps
    size,             \* the $size of take_str_eat_garbage! (SpecField)
    pc,               \* position of the computation
    pos,              \* many0!: offset of the remaining input
    hdr,              \* parse_entry: the header decoded for the current entry
    hend,             \* parse_entry: offset just after that header
    res,              \* many0!: the entries accumulated so far
    m0,               \* many0!: "running", or how the repetition ended
    last,             \* outcome of the latest parse_header / parse_contents
    result            \* what the function returned

vars == <<input, overflow_checks, size, pc, pos, hdr, hend, res, m0, last, result>>

----------------------------------------------------------------------------
(* IResult *)

Done(r, o) == [kind |-> "Done", rest |-> r, out |-> o]

Fail(k) == [kind |-> k, rest |-> 0, out |-> <<>>]

----------------------------------------------------------------------------
(* u64 *)

Limb == 2^16

U64(n) == <<n % Limb, (n \div Limb) % Limb, 0, 0>>

\* the value of a u64 below 2^31, and -1 for a larger one
U64Small(u) ==
    IF u[3] = 0 /\ u[4] = 0 /\ u[2] < 2^15 THEN u[1] + u[2] * Limb ELSE -1

\* u * 8 + d in 64 bits: the wrapped value and whether the multiplication
\* overflowed (u * 8 has its three low bits clear, so adding d <= 7 never
\* overflows)
RECURSIVE Carry(_, _, _)
Carry(u, d, k) ==
    IF k = 0 THEN d ELSE (u[k] * 8 + Carry(u, d, k - 1)) \div Limb

MulAdd8(u, d) ==
    [val |-> [k \in 1..4 |-> (u[k] * 8 + Carry(u, d, k - 1)) % Limb],
     overflow |-> Carry(u, d, 4) > 0]

----------------------------------------------------------------------------
(* octal_to_u64 *)

\* not (c < '0' || c > '7')
IsOctalOrDecimal(c) == c >= 48 /\ c <= 57

IsOctal(c) == c >= 48 /\ c <= 55

RECURSIVE OctalLoop(_, _, _, _)
RECURSIVE OctalNext(_, _, _, _)
OctalNext(s, k, m, oc) ==
    IF m.overflow /\ oc THEN [kind |-> "Panic", val |-> U64(0)]
    ELSE OctalLoop(s, k + 1, m.val, oc)

OctalLoop(s, k, u, oc) ==
    IF k > Len(s) THEN [kind |-> "Ok", val |-> u]
    ELSE IF ~IsOctal(s[k]) THEN [kind |-> "Err", val |-> U64(0)]
    ELSE OctalNext(s, k, MulAdd8(u, s[k] - 48), oc)

octal_to_u64(s, oc) == OctalLoop(s, 1, U64(0), oc)

----------------------------------------------------------------------------
(* std::str::from_utf8 on the bytes at offsets a .. b-1: every byte that   *)
(* is not a continuation byte starts a well-formed sequence, and every     *)
(* continuation byte belongs to the sequence started before it             *)

IsCont(c) == c >= 128 /\ c <= 191

\* how many continuation bytes follow the byte c, -1 when c starts nothing
Width(c) ==
    IF c < 128 THEN 0
    ELSE IF c >= 194 /\ c <= 223 THEN 1
    ELSE IF c >= 224 /\ c <= 239 THEN 2
    ELSE IF c >= 240 /\ c <= 244 THEN 3
    ELSE -1

from_utf8(i, a, b) ==
    \A q \in a..(b - 1) :
        LET c == i[q + 1] IN
        IF IsCont(c)
        THEN \E k \in 1..3 :
                /\ q - k >= a
                /\ ~IsCont(i[q - k + 1])
                /\ Width(i[q - k + 1]) >= k
                /\ \A j \in 1..(k - 1) : IsCont(i[q - j + 1])
        ELSE /\ Width(c) >= 0
             /\ q + Width(c) <= b - 1
             /\ \A j \in 1..Width(c) : IsCont(i[q + j + 1])
             /\ (c = 224 => i[q + 2] >= 160)
             /\ (c = 237 => i[q + 2] <= 159)
             /\ (c = 240 => i[q + 2] >= 144)
             /\ (c = 244 => i[q + 2] <= 143)

----------------------------------------------------------------------------
(* nom's take!, tag!, take_until!, as of nom 1.1, the release from which  *)
(* many0! gives Incomplete when its parser does                            *)

take(i, p, cnt) ==
    IF Len(i) - p < cnt THEN Fail("Incomplete")
    ELSE Done(p + cnt, SubSeq(i, p + 1, p + cnt))

\* the number of bytes tag! compares: the shorter of the input and the tag
tag_common(i, p, bytes) ==
    IF Len(i) - p < Len(bytes) THEN Len(i) - p ELSE Len(bytes)

\* tag! compares the common prefix first: an input that differs from the
\* tag is an Error even when it is shorter than the tag, and a short input
\* is Incomplete only when it is a prefix of the tag
tag_compare(i, p, bytes, m) ==
    IF SubSeq(i, p + 1, p + m) # SubSeq(bytes, 1, m) THEN Fail("Error")
    ELSE IF m < Len(bytes) THEN Fail("Incomplete")
    ELSE Done(p + Len(bytes), bytes)

tag(i, p, bytes) == tag_compare(i, p, bytes, tag_common(i, p, bytes))

\* offset of the first NUL at or after offset p, Len(i) when there is none
FindNul(i, p) ==
    IF \E q \in p..(Len(i) - 1) : i[q + 1] = 0
    THEN CHOOSE q \in p..(Len(i) - 1) :
            i[q + 1] = 0 /\ \A r \in p..(q - 1) : i[r + 1] # 0
    ELSE Len(i)

until_nul(i, p, idx) ==
    IF idx < Len(i) THEN Done(idx, SubSeq(i, p + 1, idx)) ELSE Fail("Error")

take_until_nul(i, p) ==
    IF 1 > Len(i) - p THEN Fail("Incomplete") ELSE until_nul(i, p, FindNul(i, p))

----------------------------------------------------------------------------
(* take_str_eat_garbage!(i, n) *)

\* chain!(a: .. ~ take!(..), || a), given the outcomes of its two steps
chain_keep(a, g) == IF g.kind # "Done" THEN g ELSE Done(g.rest, a.out)

\* s: map_res!(take_until!("\0"), from_utf8), given take_until!'s outcome t
str_until_nul(i, p, t) ==
    IF t.kind # "Done" THEN t
    ELSE IF ~from_utf8(i, p, t.rest) THEN Fail("Error")
    ELSE t

\* ~ take!($size - s.len()), given the outcome s of the step before
eat_garbage(i, p, n, s) ==
    IF s.kind # "Done" THEN s
    ELSE IF s.rest - p > n
         THEN \* $size - s.len() underflows: a panic with overflow checks,
              \* else a count near 2^64, which take! cannot meet
              IF overflow_checks THEN Fail("Panic") ELSE Fail("Incomplete")
         ELSE chain_keep(s, take(i, s.rest, n - (s.rest - p)))

take_str_eat_garbage(i, p, n) ==
    eat_garbage(i, p, n, str_until_nul(i, p, take_until_nul(i, p)))

\* map_res!(.., octal_to_u64), given the outcome t of the parser and the
\* outcome o of octal_to_u64 on what it produced
map_res_octal(t, o) ==
    IF o.kind = "Ok" THEN Done(t.rest, o.val)
    ELSE IF o.kind = "Panic" THEN Fail("Panic")
    ELSE Fail("Error")

map_res_octal_of(t) ==
    IF t.kind # "Done" THEN t
    ELSE map_res_octal(t, octal_to_u64(t.out, overflow_checks))

octal_field(i, p, n) == map_res_octal_of(take_str_eat_garbage(i, p, n))

----------------------------------------------------------------------------
(* nom's chain!: the parsers of a list applied one after the other, each   *)
(* to what the one before left; the first that is not Done ends the chain  *)
(* with its outcome.  A list names take_str_eat_garbage!(n), the same      *)
(* under map_res!(.., octal_to_u64), take!(n) and tag!(bytes)              *)

Str(n) == [kind |-> "str", n |-> n, bytes |-> <<>>]

Oct(n) == [kind |-> "oct", n |-> n, bytes |-> <<>>]

Take(n) == [kind |-> "take", n |-> n, bytes |-> <<>>]

Tag(b) == [kind |-> "tag", n |-> Len(b), bytes |-> b]

apply_parser(i, p, f) ==
    IF f.kind = "str" THEN take_str_eat_garbage(i, p, f.n)
    ELSE IF f.kind = "oct" THEN octal_field(i, p, f.n)
    ELSE IF f.kind = "take" THEN take(i, p, f.n)
    ELSE tag(i, p, f.bytes)

RECURSIVE chain(_, _, _, _, _)
RECURSIVE chain_step(_, _, _, _, _)
chain_step(i, fields, k, outs, r) ==
    IF r.kind # "Done" THEN Fail(r.kind)
    ELSE chain(i, r.rest, fields, k + 1, Append(outs, r.out))

chain(i, p, fields, k, outs) ==
    IF k > Len(fields) THEN Done(p, outs)
    ELSE chain_step(i, fields, k, outs, apply_parser(i, p, fields[k]))

----------------------------------------------------------------------------
(* char_to_type_flag *)

char_to_type_flag(c) ==
    IF c = 48 \/ c = 0 THEN "NormalFile"
    ELSE IF c = 49 THEN "HardLink"
    ELSE IF c = 50 THEN "SymbolicLink"
    ELSE IF c = 51 THEN "CharacterSpecial"
    ELSE IF c = 52 THEN "BlockSpecial"
    ELSE IF c = 53 THEN "Directory"
    ELSE IF c = 54 THEN "FIFO"
    ELSE IF c = 55 THEN "ContiguousFile"
    ELSE IF c = 103 THEN "GlobalExtendedHeaderWithMetadata"
    ELSE IF c = 120 THEN "ExtendedHeaderWithMetadataForNext"
    ELSE IF c >= 65 /\ c <= 90 THEN "VendorSpecific"
    ELSE "Invalid"

----------------------------------------------------------------------------
(* parse_ustar00, parse_ustar, parse_posix, parse_header *)

MagicBytes == <<117, 115, 116, 97, 114, 0>>

VersionBytes == <<48, 48>>

NoUstar == [some |-> FALSE]

Ustar00Fields ==
    <<Tag(VersionBytes), Str(32), Str(32), Oct(8), Oct(8), Str(155), Take(12)>>

ustar00_header(c) ==
    IF c.kind # "Done" THEN c
    ELSE Done(c.rest,
              [some |-> TRUE, magic |-> MagicBytes, version |-> VersionBytes,
               uname |-> c.out[2], gname |-> c.out[3],
               devmajor |-> c.out[4], devminor |-> c.out[5],
               prefix |-> c.out[6]])

parse_ustar00(i, p) == ustar00_header(chain(i, p, Ustar00Fields, 1, <<>>))

ustar_after_magic(i, m) ==
    IF m.kind # "Done" THEN m ELSE parse_ustar00(i, m.rest)

parse_ustar(i, p) == ustar_after_magic(i, tag(i, p, MagicBytes))

posix_header(pad) ==
    IF pad.kind # "Done" THEN pad ELSE Done(pad.rest, NoUstar)

parse_posix_short(i, p) == posix_header(take(i, p, 243))

parse_posix(i, p) == posix_header(take(i, p, 255))

\* alt!(parse_ustar | parse_posix): only an Error of the first alternative
\* gives way to the second
alt(i, p, u) == IF u.kind = "Error" THEN parse_posix(i, p) ELSE u

alt_ustar_posix(i, p) == alt(i, p, parse_ustar(i, p))

HeaderFieldsShortName ==
    <<Str(10), Str(8), Oct(8), Oct(8), Oct(12), Oct(12), Str(8), Take(1),
      Str(100)>>

HeaderFields ==
    <<Str(100), Str(8), Oct(8), Oct(8), Oct(12), Oct(12), Str(8), Take(1),
      Str(100)>>

posix_header_of(c, ustar) ==
    IF ustar.kind # "Done" THEN Fail(ustar.kind)
    ELSE Done(ustar.rest,
              [name |-> c.out[1], mode |-> c.out[2],
               uid |-> c.out[3], gid |-> c.out[4],
               size |-> c.out[5], mtime |-> c.out[6],
               chksum |-> c.out[7],
               typeflag |-> char_to_type_flag(c.out[8][1]),
               linkname |-> c.out[9], ustar |-> ustar.out])

header_after_fields(i, c) ==
    IF c.kind # "Done" THEN c
    ELSE posix_header_of(c, alt_ustar_posix(i, c.rest))

parse_header(i, p) == header_after_fields(i, chain(i, p, HeaderFields, 1, <<>>))

----------------------------------------------------------------------------
(* parse_contents *)

\* take!(n as usize) for a u64 n
take_small(i, p, c) ==
    IF c < 0 THEN Fail("Incomplete") ELSE take(i, p, c)

take_u64(i, p, n) == take_small(i, p, U64Small(n))

trailing_padding_raw(trailing) == trailing

trailing_padding(trailing) == IF trailing = 0 THEN 0 ELSE 512 - trailing

padding_none(sz) == 0

padding_of(sz) == trailing_padding(sz[1] % 512)

contents_after(i, p, sz, c) ==
    IF c.kind # "Done" THEN c
    ELSE IF ~from_utf8(i, p, c.rest) THEN Fail("Error")
    ELSE chain_keep(c, take(i, c.rest, padding_of(sz)))

parse_contents(i, p, sz) == contents_after(i, p, sz, take_u64(i, p, sz))

----------------------------------------------------------------------------
(* filter_entries *)

filter_entries_all(entries) == entries

RECURSIVE filter_entries(_)
filter_entries(entries) ==
    IF entries = <<>> THEN <<>>
    ELSE IF Head(entries).header.name # <<>>
         THEN <<Head(entries)>> \o filter_entries(Tail(entries))
         ELSE filter_entries(Tail(entries))

----------------------------------------------------------------------------
(* Input buffers: header blocks laid out field by field, and archives made  *)
(* of a few records                                                        *)

MaxEntries == 2

MaxEndBlocks == 2

Rep(b, n) == [k \in 1..n |-> b]

Field(bytes, n) == bytes \o Rep(0, n - Len(bytes))

HeaderBlock(name, uid, sz, typeflag, ext) ==
    Field(name, 100) \o Field(<<54, 52, 52>>, 8) \o Field(uid, 8)
        \o Field(<<49, 50>>, 8) \o Field(sz, 12) \o Field(<<53>>, 12)
        \o Field(<<>>, 8) \o <<typeflag>> \o Field(<<>>, 100) \o ext

ExtUstar(uname, devmajor) ==
    MagicBytes \o VersionBytes \o Field(uname, 32) \o Field(<<97>>, 32)
        \o Field(devmajor, 8) \o Field(<<50>>, 8) \o Field(<<97, 97>>, 155)
        \o Rep(0, 12)

ExtPosix == Rep(0, 255)

ZeroBlock == Rep(0, 512)

RecordList ==
    << ZeroBlock,
      \* "a", 10 bytes of content, padded
      HeaderBlock(<<97>>, <<55>>, <<49, 50>>, 48, ExtPosix) \o Rep(97, 10) \o Rep(0, 502),
      \* ustar, empty
      HeaderBlock(<<97, 97>>, <<55>>, <<>>, 53, ExtUstar(<<97>>, <<49>>)),
      \* ustar whose devmajor is "8", 512 bytes of content
      HeaderBlock(<<97>>, <<55>>, <<49, 48, 48, 48>>, 48, ExtUstar(<<97>>, <<56>>))
          \o Rep(97, 512),
      \* uid "8"
      HeaderBlock(<<97>>, <<56>>, <<>>, 48, ExtPosix),
      \* 513 bytes of content, padded
      HeaderBlock(<<97>>, <<55>>, <<49, 48, 48, 49>>, 48, ExtPosix)
          \o Rep(97, 513) \o Rep(0, 511),
      \* 10 bytes of content, not padded
      HeaderBlock(<<97>>, <<55>>, <<49, 50>>, 48, ExtPosix) \o Rep(97, 10),
      \* one byte of content that is no text, not padded
      HeaderBlock(<<97>>, <<55>>, <<49>>, 48, ExtPosix) \o <<255>>,
      \* a name that fills its slot: the terminator is in the mode slot
      HeaderBlock(Rep(97, 100), <<55>>, <<>>, 48, ExtPosix),
      \* ustar whose uname is no text
      HeaderBlock(<<97>>, <<55>>, <<>>, 48, ExtUstar(<<255>>, <<49>>)),
      \* ustar whose uname fills its slot
      HeaderBlock(<<97>>, <<55>>, <<>>, 48, ExtUstar(Rep(97, 32), <<49>>)),
      \* a declared size of 2^33 - 1 and no content
      HeaderBlock(<<97>>, <<55>>, Rep(55, 11), 48, ExtPosix),
      \* a header cut inside its magic slot
      SubSeq(HeaderBlock(<<97>>, <<55>>, <<>>, 48, ExtPosix), 1, 260),
      \* a ustar header cut inside its version slot
      SubSeq(HeaderBlock(<<97>>, <<55>>, <<>>, 48, ExtUstar(<<97>>, <<49>>)),
             1, 263) >>

Records == { RecordList[k] : k \in DOMAIN RecordList }

RECURSIVE Concat(_)
Concat(ss) == IF ss = <<>> THEN <<>> ELSE Head(ss) \o Concat(Tail(ss))

\* up to MaxEntries records, then up to MaxEndBlocks all-zero blocks
Archives ==
    { Concat(rs) \o Rep(0, 512 * z) :
        rs \in UNION { [1..n -> Records] : n \in 0..MaxEntries },
        z \in 0..MaxEndBlocks }

----------------------------------------------------------------------------
(* parse_tar: map_res!(i, many0!(parse_entry), filter_entries), with       *)
(* parse_entry: chain!(parse_header ~ apply!(parse_contents, header.size)) *)

NoHeader == [name |-> <<>>, size |-> U64(0), ustar |-> NoUstar, none |-> TRUE]

NoLast == [op |-> "none", at |-> 0, kind |-> "none", rest |-> 0]

NoResult == Fail("none")

Init ==
    /\ input \in Archives
    /\ overflow_checks \in BOOLEAN
    /\ size = 0
    /\ pc = "many0"
    /\ pos = 0
    /\ hdr = NoHeader
    /\ hend = 0
    /\ res = <<>>
    /\ m0 = "running"
    /\ last = NoLast
    /\ result = NoResult

\* many0!: the repetition ends when no input remains
Many0Test ==
    /\ pc = "many0"
    /\ IF Len(input) - pos = 0
       THEN pc' = "map_res" /\ m0' = "Done"
       ELSE pc' = "header" /\ m0' = m0
    /\ UNCHANGED <<input, overflow_checks, size, pos, hdr, hend, res, last, result>>

\* many0! on an application of parse_entry that is not Done: an Error ends
\* the repetition with what was accumulated, an Incomplete makes the whole
\* repetition Incomplete, a panic unwinds out of parse_tar
EntryFailed(k) ==
    IF k = "Panic"
    THEN pc' = "done" /\ m0' = "Panic" /\ result' = Fail("Panic")
    ELSE /\ pc' = "map_res"
         /\ m0' = (IF k = "Error" THEN "Done" ELSE "Incomplete")
         /\ result' = result

HeaderApplied(h) ==
    /\ last' = [op |-> "parse_header", at |-> pos, kind |-> h.kind,
                rest |-> h.rest]
    /\ IF h.kind = "Done"
       THEN /\ hdr' = h.out
            /\ hend' = h.rest
            /\ pc' = "contents"
            /\ UNCHANGED <<m0, result>>
       ELSE /\ EntryFailed(h.kind)
            /\ UNCHANGED <<hdr, hend>>

ParseHeader ==
    /\ pc = "header"
    /\ HeaderApplied(parse_header(input, pos))
    /\ UNCHANGED <<input, overflow_checks, size, pos, res>>

ContentsApplied(c) ==
    /\ last' = [op |-> "parse_contents", at |-> hend, kind |-> c.kind,
                rest |-> c.rest]
    /\ IF c.kind = "Done"
       THEN IF res # <<>> /\ c.rest = pos
            THEN \* an application that consumed nothing ends the loop
                 /\ pc' = "map_res" /\ m0' = "Done"
                 /\ UNCHANGED <<pos, res, result>>
            ELSE /\ res' = Append(res, [header |-> hdr, contents |-> c.out])
                 /\ pos' = c.rest
                 /\ pc' = "many0"
                 /\ UNCHANGED <<m0, result>>
       ELSE /\ EntryFailed(c.kind)
            /\ UNCHANGED <<pos, res>>

ParseContents ==
    /\ pc = "contents"
    /\ ContentsApplied(parse_contents(input, hend, hdr.size))
    /\ UNCHANGED <<input, overflow_checks, size, hdr, hend>>

\* map_res!(.., filter_entries)
MapRes ==
    /\ pc = "map_res"
    /\ pc' = "done"
    /\ result' = (IF m0 = "Done" THEN Done(pos, filter_entries(res)) ELSE Fail(m0))
    /\ UNCHANGED <<input, overflow_checks, size, pos, hdr, hend, res, m0, last>>

Next == Many0Test \/ ParseHeader \/ ParseContents \/ MapRes

Spec == Init /\ [][Next]_vars

----------------------------------------------------------------------------
(* octal_to_u64 applied to a string *)

MaxOctLen == 2

MaxZeros == 22

OctAlphabet == {48, 49, 50, 55, 56, 97, 65}

OctTests == { <<55, 53, 54>>, <<49, 50, 51, 56>>, <<97>>, <<65>>, <<>> }

\* short strings, each followed by a run of '0' and then by nothing or '8'
OctStrings ==
    OctTests \cup
    { pre \o Rep(48, z) \o suf :
        pre \in UNION { [1..n -> OctAlphabet] : n \in 0..MaxOctLen },
        z \in 0..MaxZeros,
        suf \in { <<>>, <<56>> } }

InitOctal ==
    /\ input \in OctStrings
    /\ overflow_checks \in BOOLEAN
    /\ size = 0
    /\ pc = "octal_to_u64"
    /\ pos = 0
    /\ hdr = NoHeader
    /\ hend = 0
    /\ res = <<>>
    /\ m0 = "none"
    /\ last = NoLast
    /\ result = NoResult

OctalToU64 ==
    /\ pc = "octal_to_u64"
    /\ pc' = "done"
    /\ result' = octal_to_u64(input, overflow_checks)
    /\ UNCHANGED <<input, overflow_checks, size, pos, hdr, hend, res, m0, last>>

SpecOctal == InitOctal /\ [][OctalToU64]_vars

----------------------------------------------------------------------------
(* take_str_eat_garbage!(&input[pos..], size) *)

MaxBuf == 4

MaxWidth == 4

FieldAlphabet == {0, 97, 195, 169}

FieldTest == <<102, 111, 111, 98, 97, 114, 0, 0, 0, 0, 98, 97, 122>>

FieldBuffers ==
    {FieldTest} \cup UNION { [1..n -> FieldAlphabet] : n \in 0..MaxBuf }

InitField ==
    /\ input \in FieldBuffers
    /\ overflow_checks \in BOOLEAN
    /\ size \in 0..MaxWidth \cup {10}
    /\ pc = "take_str_eat_garbage"
    /\ pos \in {0, 1}
    /\ pos <= Len(input)
    /\ hdr = NoHeader
    /\ hend = 0
    /\ res = <<>>
    /\ m0 = "none"
    /\ last = NoLast
    /\ result = NoResult

TakeStrEatGarbage ==
    /\ pc = "take_str_eat_garbage"
    /\ pc' = "done"
    /\ result' = take_str_eat_garbage(input, pos, size)
    /\ UNCHANGED <<input, overflow_checks, size, pos, hdr, hend, res, m0, last>>

SpecField == InitField /\ [][TakeStrEatGarbage]_vars

----------------------------------------------------------------------------
(* What the claims speak of *)

\* the text of the slot that starts at offset off: the bytes before the
\* first NUL at or after off
FieldText(off) == SubSeq(input, off + 1, FindNul(input, off))

ValidText(off) == from_utf8(input, off, FindNul(input, off))

AllOctal(s) == \A k \in 1..Len(s) : s[k] \in 48..55

\* the block at offset at carries "ustar\0" and "00" in its bytes 257-264
HasMagic(at) ==
    /\ Len(input) >= at + 265
    /\ SubSeq(input, at + 258, at + 265) = MagicBytes \o VersionBytes

\* (512 - s mod 512) mod 512
PadOf(s) == (512 - (s % 512)) % 512

HasName(e) == e.header.name # <<>>

\* the digits of s before its first character that is no octal digit
DigitPrefix(s) ==
    IF AllOctal(s) THEN s
    ELSE SubSeq(s, 1, (CHOOSE k \in 1..Len(s) :
                          s[k] \notin 48..55 /\ AllOctal(SubSeq(s, 1, k - 1))) - 1)

RECURSIVE Significant(_)
Significant(d) ==
    IF d # <<>> /\ Head(d) = 48 THEN Significant(Tail(d)) ELSE d

\* the base-8 value of the digits d is below 2^64 = 2 * 8^21
Fits(d) ==
    \/ Len(Significant(d)) <= 21
    \/ Len(Significant(d)) = 22 /\ Significant(d)[1] = 49

\* bit j of the base-8 value of the digits d: each digit is three bits
Bit(d, j) ==
    IF j \div 3 >= Len(d) THEN 0
    ELSE ((d[Len(d) - j \div 3] - 48) \div 2^(j % 3)) % 2

RECURSIVE SumBits(_, _, _)
SumBits(d, k, b) ==
    IF b > 15 THEN 0 ELSE Bit(d, 16 * k + b) * 2^b + SumBits(d, k, b + 1)

\* the low 64 bits of the base-8 value of the digits d
OctalValue(d) ==
    <<SumBits(d, 0, 0), SumBits(d, 1, 0), SumBits(d, 2, 0), SumBits(d, 3, 0)>>

\* one valid entry and two all-zero blocks
OneEntryArchive == RecordList[2] \o ZeroBlock \o ZeroBlock

HeaderDecoded == last.op = "parse_header" /\ last.kind = "Done"

\* fewer bytes remain after the header than the declared size and its padding
Truncated ==
    \/ U64Small(hdr.size) < 0
    \/ Len(input) - last.at < U64Small(hdr.size) + PadOf(U64Small(hdr.size))

----------------------------------------------------------------------------
(* C1 *)

\* C1: if the decoding of an entry fails before the input is consumed,
\* parse_tar returns a failure and no entries, never the entries decoded
\* before the failing one.
C1_NoPartialResult ==
    (pc = "done" /\ last.kind \in {"Error", "Incomplete", "Panic"})
        => (result.kind # "Done" /\ result.out = <<>>)

----------------------------------------------------------------------------
(* C2 *)

\* C2: when parse_tar succeeds its result is the sequence of decoded
\* entries without those whose name is empty, in their order of appearance;
\* one valid entry followed by two all-zero blocks decodes to that one entry;
\* no returned entry has an empty name.
C2_FilteredInOrder ==
    (pc = "done" /\ result.kind = "Done") =>
        /\ result.out = SelectSeq(res, HasName)
        /\ \A k \in 1..Len(result.out) : result.out[k].header.name # <<>>
        /\ input = OneEntryArchive =>
              /\ Len(result.out) = 1
              /\ result.out[1].header.name = <<97>>
              /\ result.out[1].contents = Rep(97, 10)

C2_Witness ==
    /\ pc = "done"
    /\ input = OneEntryArchive
    /\ result.kind = "Done"
    /\ Len(res) = 3
    /\ Len(result.out) = 1

----------------------------------------------------------------------------
(* C3 *)

\* C3: a successful parse_contents consumes the declared size and
\* (512 - size mod 512) mod 512 bytes of padding (0 for 0 and 512, 502 for
\* 10, 511 for 513), an entry is a multiple of 512 bytes long, and the next
\* header starts at a multiple of 512.
C3_ContentAlignment ==
    /\ pos % 512 = 0
    /\ (last.op = "parse_contents" /\ last.kind = "Done") =>
          /\ U64Small(hdr.size) >= 0
          /\ last.rest - last.at
                = U64Small(hdr.size) + PadOf(U64Small(hdr.size))
          /\ (last.rest - last.at + 512) % 512 = 0
          /\ hdr.size = U64(0) => last.rest - last.at = 0
          /\ hdr.size = U64(10) => last.rest - last.at = 10 + 502
          /\ hdr.size = U64(512) => last.rest - last.at = 512
          /\ hdr.size = U64(513) => last.rest - last.at = 513 + 511

C3_Witness ==
    /\ last.op = "parse_contents"
    /\ last.kind = "Done"
    /\ hdr.size = U64(513)
    /\ Len(res) = 2
    /\ res[1].header.size = U64(10)
    /\ pos = 512 + 512 + 512 + 1024

----------------------------------------------------------------------------
(* C4 *)

\* C4: a successful parse_header consumes exactly 512 bytes, with and
\* without the extension record.
C4_HeaderIs512 ==
    HeaderDecoded => (last.rest - last.at = 512 /\ hend = last.at + 512)

C4_Witness ==
    /\ HeaderDecoded
    /\ hdr.ustar.some
    /\ Len(res) = 1
    /\ ~res[1].header.ustar.some

----------------------------------------------------------------------------
(* C5 *)

\* C5: for a slot of width n, take_str_eat_garbage returns the bytes from
\* the slot start to the first NUL and leaves the read position n bytes
\* after the slot start, wherever the terminator is.
C5_SlotAlwaysConsumed ==
    ( /\ pc = "done"
      /\ FindNul(input, pos) < Len(input)
      /\ ValidText(pos)
      /\ Len(input) - pos >= size )
        => result = Done(pos + size, FieldText(pos))

----------------------------------------------------------------------------
(* C6 *)

\* C6, as amended: octal_to_u64 returns 0 for the empty string and 494 for
\* "756"; when the digits before the end of the string or before its first
\* character outside '0'..'7' have a base-8 value below 2^64, it returns
\* that value for a string of digits and fails with the invalid-octal error
\* otherwise; when they do not, it panics in a build with overflow checks
\* and computes modulo 2^64 in a build without.
C6_OctalWithin64Bits ==
    pc = "done" =>
        /\ input = <<>> => result = [kind |-> "Ok", val |-> U64(0)]
        /\ input = <<55, 53, 54>> => result = [kind |-> "Ok", val |-> U64(494)]
        /\ (AllOctal(input) /\ Fits(input)) =>
              (result.kind = "Ok" /\ result.val = OctalValue(input))
        /\ (~AllOctal(input) /\ Fits(DigitPrefix(input))) =>
              result.kind = "Err"
        /\ ~Fits(DigitPrefix(input)) =>
              IF overflow_checks THEN result.kind = "Panic"
              ELSE IF AllOctal(input)
                   THEN result.kind = "Ok" /\ result.val = OctalValue(input)
                   ELSE result.kind = "Err"

C6_Witness ==
    /\ pc = "done"
    /\ Len(input) = 22
    /\ input[1] = 49
    /\ AllOctal(input)
    /\ result = [kind |-> "Ok", val |-> <<0, 0, 0, 2^15>>]

\* C6: octal_to_u64 returns the base-8 value of every string of characters
\* '0'..'7', and fails with the invalid-octal error for every string with a
\* character outside '0'..'7'.
C6_OctalEveryString ==
    pc = "done" =>
        /\ AllOctal(input) =>
              /\ result.kind = "Ok"
              /\ result.val = OctalValue(input)
              /\ Fits(input)
        /\ ~AllOctal(input) => result.kind = "Err"

----------------------------------------------------------------------------
(* C7 *)

\* C7: a block whose bytes 257-264 are "ustar\0" and "00" decodes to a
\* header with an extension record carrying its uname, gname, devmajor,
\* devminor and prefix; a block without them decodes to a header with no
\* extension record.
C7_UstarDetection ==
    HeaderDecoded =>
        IF HasMagic(last.at)
        THEN /\ hdr.ustar.some
             /\ hdr.ustar.uname = FieldText(last.at + 265)
             /\ hdr.ustar.gname = FieldText(last.at + 297)
             /\ hdr.ustar.devmajor = OctalValue(FieldText(last.at + 329))
             /\ hdr.ustar.devminor = OctalValue(FieldText(last.at + 337))
             /\ hdr.ustar.prefix = FieldText(last.at + 345)
        ELSE ~hdr.ustar.some

----------------------------------------------------------------------------
(* C8 *)

\* C8: parse_header produces no header when an octal field (uid, gid,
\* size, mtime, and devmajor or devminor of a block with the USTAR magic
\* and version) holds a character that is no octal digit, or a text field
\* is no valid text.
C8_FieldFailureAborts ==
    HeaderDecoded =>
        /\ \A off \in {108, 116, 124, 136} : AllOctal(FieldText(last.at + off))
        /\ \A off \in {0, 100, 148, 157} : ValidText(last.at + off)
        /\ HasMagic(last.at) =>
              /\ \A off \in {329, 337} : AllOctal(FieldText(last.at + off))
              /\ \A off \in {265, 297, 345} : ValidText(last.at + off)

----------------------------------------------------------------------------
(* C9 *)

\* C9, as amended: when fewer bytes than the declared size and its padding
\* remain after a decoded header, parse_contents fails and no entry is
\* produced for that header; the failure is the unexpected end of input,
\* unless the declared size is there and is no valid text, and then it is
\* the invalid-text error.
C9_TruncatedContentFails ==
    (last.op = "parse_contents" /\ Truncated) =>
        /\ last.kind =
              (IF /\ U64Small(hdr.size) >= 0
                  /\ Len(input) - last.at >= U64Small(hdr.size)
                  /\ ~from_utf8(input, last.at, last.at + U64Small(hdr.size))
               THEN "Error" ELSE "Incomplete")
        /\ pos = last.at - 512
        /\ Len(res) * 512 <= pos
        /\ pc \in {"map_res", "done"}
        /\ pc = "done" => Len(result.out) <= Len(res)

C9_Witness ==
    /\ last.op = "parse_contents"
    /\ Truncated
    /\ last.kind = "Incomplete"
    /\ hdr.size = U64(10)
    /\ Len(res) = 1
    /\ pc = "done"
    /\ result.kind = "Incomplete"

\* C9: when fewer bytes than the declared size and its padding remain after
\* a decoded header, parse_contents fails with the unexpected end of input.
C9_TruncatedIsUnexpectedEnd ==
    (last.op = "parse_contents" /\ Truncated) => last.kind = "Incomplete"

----------------------------------------------------------------------------
(* C10 *)

\* how far parse_tar is from returning: the bytes that remain, then the
\* steps left of the current application
Variant ==
    5 * (Len(input) - pos)
        + (IF pc = "many0" THEN 4
           ELSE IF pc = "header" THEN 3
           ELSE IF pc = "contents" THEN 2
           ELSE IF pc = "map_res" THEN 1
           ELSE 0)

\* C10: parse_tar terminates: each successful parse_entry advances the read
\* position by at least 512 bytes, so there are at most length / 512 of
\* them, and the repetition stops when the input is consumed or at the
\* first application that fails.  Every step brings the variant down, which
\* is never negative.
C10_Terminates ==
    /\ [](Variant >= 0 /\ Len(res) * 512 <= pos /\ pos <= Len(input))
    /\ [][Variant' < Variant]_vars
    /\ [][pos' # pos => (pos' >= pos + 512 /\ Len(res') = Len(res) + 1)]_vars
    /\ [](pc = "done" =>
            \/ pos = Len(input)
            \/ last.kind \in {"Error", "Incomplete", "Panic"})
    /\ [](pc # "done" => pc \in {"many0", "header", "contents", "map_res"})

C10_Witness ==
    /\ pc = "done"
    /\ result.kind = "Done"
    /\ Len(res) = 2
    /\ pos = Len(input)
    /\ pos = 512 + 512 + 512

====
